---- MODULE Spec2Model ----
(***************************************************************************)
(* A model of the Rational Decision Engine (epochon/Rajs):                 *)
(*   quant_tool.py    fetch_market_data, the metrics provider              *)
(*   orchestrator.py  compute_rule_based_verdict and run_relay             *)
(*   agents.py        the narrative generations                            *)
(*   api.py           analyze and check_watchlist                          *)
(*   profiles.py      the profile store                                    *)
(*                                                                         *)
(* Numbers.  Python floats are modelled by exact fixed-point integers:     *)
(*   percentages, P/E, volatility and prices   in hundredths               *)
(*   range_52w_position                         in ten-thousandths         *)
(*   the running score                          in 1/Scale of a point      *)
(* A metric is a record [k, v]: k = "na" is the string "N/A" (or None),    *)
(* k = "num" a float of value v, k = "nan" the float NaN.                  *)
(***************************************************************************)
EXTENDS Integers, Sequences, FiniteSets, TLC

VARIABLES
    quant_data,     \* SpecScore: the snapshot handed to compute_rule_based_verdict
    scored,         \* SpecScore: what compute_rule_based_verdict returned
    score_pc,       \* SpecScore: "call" before the call, "done" after it
    yf,             \* quant_tool.yf: TRUE when the yfinance import succeeded
    ticker_arg,     \* SpecFetch: the ticker handed to fetch_market_data
    market,         \* SpecFetch: what the provider answers for that ticker
    fetched,        \* SpecFetch: the outcome of fetch_market_data
    fetch_pc,       \* SpecFetch: "call" before the call, "done" after it
    config,         \* config.py: LITE_MODE and COMBINED_DEBATE, read once at import
    req,            \* Spec: the last request to /api/analyze and what the world answered
    run,            \* Spec: the outcome of the last run_relay call
    resp,           \* Spec: the last HTTP response of /api/analyze
    store,          \* profiles.py: the profiles held in data/profiles.json
    next_id,        \* SpecStore: the profiles created so far (the next uuid)
    sreq,           \* SpecStore: the profile request being answered
    sresp,          \* SpecStore: its HTTP response, until it is sent
    raw_text,       \* SpecParse: the generation handed to _parse_bear_bull_combined
    parsed,         \* SpecParse: the (bear, bull) pair it returned
    parse_pc,       \* SpecParse: "call" before the call, "done" after it
    threads,        \* SpecRace: the requests in flight: operation, position, loaded list
    file0           \* SpecRace: data/profiles.json as it was when the requests arrived

score_vars == <<quant_data, scored, score_pc>>
fetch_vars == <<ticker_arg, market, fetched, fetch_pc>>
relay_vars == <<req, run, resp>>
store_vars == <<store, next_id, sreq, sresp>>
parse_vars == <<raw_text, parsed, parse_pc>>
race_vars == <<threads, file0>>

vars == <<quant_data, scored, score_pc, yf, ticker_arg, market, fetched, fetch_pc,
          config, req, run, resp, store, next_id, sreq, sresp,
          raw_text, parsed, parse_pc, threads, file0>>

-----------------------------------------------------------------------------
(* Metric values *)

NA == [k |-> "na", v |-> 0]
NaN == [k |-> "nan", v |-> 0]
Num(n) == [k |-> "num", v |-> n]

\* One percent, one unit of P/E, 1.0 of volatility.
Centi == 10 * 10
\* 1.0 of range_52w_position.
PosOne == Centi * Centi
\* One point of score: rev/2 and eps/3 of a value in hundredths are whole.
Scale == 2 * 3 * Centi

Min(a, b) == IF a <= b THEN a ELSE b
Max(a, b) == IF a >= b THEN a ELSE b
Abs(a) == IF a < 0 THEN -a ELSE a

\* Python's round(): the nearest integer to n/d (d > 0), a tie going to the even one.
RoundHalfEven(n, d) ==
    LET q == n \div d
        r == n % d
    IN  IF 2 * r < d THEN q
        ELSE IF 2 * r > d THEN q + 1
        ELSE IF q % 2 = 0 THEN q ELSE q + 1

-----------------------------------------------------------------------------
(* orchestrator.py: the rule-based verdict *)

\* _n: a float, or None (here NA) for None, "N/A" and what float() rejects.
\* NaN is a float and passes.
_n(val) == val

Present(x) == x.k # "na"
\* A Python comparison x > c: false when x is NaN.
Gt(x, c) == x.k = "num" /\ x.v > c
Lt(x, c) == x.k = "num" /\ x.v < c

BaseScore == 50
RevCap == 15
EpsCap == 10
RetCap == 10
MissingPenalty == 5
NotPositivePenalty == 5
RangePoints == 5
PosHigh == 8000
PosLow == 2000
PeHigh == 80
PeMid == 50
PeLow == 30
PeHighPenalty == 20
PeMidPenalty == 15
PeLowPenalty == 10
VolHigh == 70
VolMid == 50
VolHighPenalty == 15
VolMidPenalty == 10
ManyMissing == 4
ManyMissingPenalty == 10
BuyThreshold == 70
HoldThreshold == 40
KeyMetrics == 7

Line(rule, msg, val, pts) == [rule |-> rule, msg |-> msg, val |-> val, pts |-> pts]

\* f"{x:.0f}" of a score amount
Pts(amount) == RoundHalfEven(amount, Scale)

\* The accumulator of compute_rule_based_verdict: score, justification, na_count.
Start == [score |-> BaseScore * Scale, justification |-> <<>>, na_count |-> 0]

Bump(st, delta, line) ==
    [st EXCEPT !.score = @ + delta, !.justification = Append(@, line)]

Missing(st, penalty, line) ==
    [st EXCEPT !.score = @ - penalty, !.justification = Append(@, line),
               !.na_count = @ + 1]

\* A slip in the revenue rule: the cap of 15 points forgotten.
RuleRevenueUncapped(st, q) ==
    LET rev == _n(q.revenue_growth_yoy_pct) IN
    IF Present(rev)
    THEN IF Gt(rev, 0)
         THEN LET add == (rev.v * Scale) \div (2 * Centi)
              IN  Bump(st, add, Line("revenue", "adds support", rev.v, Pts(add)))
         ELSE Bump(st, -(NotPositivePenalty * Scale),
                   Line("revenue", "is not positive", rev.v, -NotPositivePenalty))
    ELSE Missing(st, MissingPenalty * Scale,
                 Line("revenue", "not available", 0, -MissingPenalty))

\* Revenue growth YoY.  A NaN fails rev > 0 and takes the else branch.
RuleRevenue(st, q) ==
    LET rev == _n(q.revenue_growth_yoy_pct) IN
    IF Present(rev)
    THEN IF Gt(rev, 0)
         THEN LET add == Min(RevCap * Scale, (rev.v * Scale) \div (2 * Centi))
              IN  Bump(st, add, Line("revenue", "adds support", rev.v, Pts(add)))
         ELSE Bump(st, -(NotPositivePenalty * Scale),
                   Line("revenue", "is not positive", rev.v, -NotPositivePenalty))
    ELSE Missing(st, MissingPenalty * Scale,
                 Line("revenue", "not available", 0, -MissingPenalty))

\* A slip in the EPS rule: the divisor of the revenue rule.
RuleEpsHalved(st, q) ==
    LET eps == _n(q.eps_growth_pct) IN
    IF Present(eps)
    THEN IF Gt(eps, 0)
         THEN LET add == Min(EpsCap * Scale, (eps.v * Scale) \div (2 * Centi))
              IN  Bump(st, add, Line("eps", "adds support", eps.v, Pts(add)))
         ELSE Bump(st, -(NotPositivePenalty * Scale),
                   Line("eps", "not positive", eps.v, -NotPositivePenalty))
    ELSE Missing(st, MissingPenalty * Scale,
                 Line("eps", "not available", 0, -MissingPenalty))

\* EPS growth.
RuleEps(st, q) ==
    LET eps == _n(q.eps_growth_pct) IN
    IF Present(eps)
    THEN IF Gt(eps, 0)
         THEN LET add == Min(EpsCap * Scale, (eps.v * Scale) \div (3 * Centi))
              IN  Bump(st, add, Line("eps", "adds support", eps.v, Pts(add)))
         ELSE Bump(st, -(NotPositivePenalty * Scale),
                   Line("eps", "not positive", eps.v, -NotPositivePenalty))
    ELSE Missing(st, MissingPenalty * Scale,
                 Line("eps", "not available", 0, -MissingPenalty))

\* 30-day return.  min(10, abs(NaN)) is 10 in Python (the comparison fails).
RuleReturn(st, q) ==
    LET ret30 == _n(q.return_30d_pct) IN
    IF Present(ret30)
    THEN IF Gt(ret30, 0)
         THEN LET add == Min(RetCap * Scale, (ret30.v * Scale) \div Centi)
              IN  Bump(st, add, Line("return30", "adds support", ret30.v, Pts(add)))
         ELSE LET sub == IF ret30.k = "nan" THEN RetCap * Scale
                         ELSE Min(RetCap * Scale, (Abs(ret30.v) * Scale) \div Centi)
              IN  Bump(st, -sub, Line("return30", "subtracts points", ret30.v, -Pts(sub)))
    ELSE Missing(st, MissingPenalty * Scale,
                 Line("return30", "not available", 0, -MissingPenalty))

\* A slip in the range rule: the absent case penalized like the other rules.
RuleRangePenalized(st, q) ==
    LET pos52 == _n(q.range_52w_position) IN
    IF Present(pos52)
    THEN IF Gt(pos52, PosHigh)
         THEN Bump(st, -(RangePoints * Scale),
                   Line("range52w", "near 52w high", pos52.v, -RangePoints))
         ELSE IF Lt(pos52, PosLow)
         THEN Bump(st, RangePoints * Scale,
                   Line("range52w", "near 52w low", pos52.v, RangePoints))
         ELSE st
    ELSE Missing(st, MissingPenalty * Scale,
                 Line("range52w", "not available", 0, -MissingPenalty))

\* 52-week range position: absent only counts, the middle of the range does nothing.
RuleRange(st, q) ==
    LET pos52 == _n(q.range_52w_position) IN
    IF Present(pos52)
    THEN IF Gt(pos52, PosHigh)
         THEN Bump(st, -(RangePoints * Scale),
                   Line("range52w", "near 52w high", pos52.v, -RangePoints))
         ELSE IF Lt(pos52, PosLow)
         THEN Bump(st, RangePoints * Scale,
                   Line("range52w", "near 52w low", pos52.v, RangePoints))
         ELSE st
    ELSE [st EXCEPT !.na_count = @ + 1]

\* P/E.
RulePe(st, q) ==
    LET pe == _n(q.pe_ratio) IN
    IF Present(pe)
    THEN IF Gt(pe, PeHigh * Centi)
         THEN Bump(st, -(PeHighPenalty * Scale),
                   Line("pe", "High P/E significantly reduces", pe.v, -PeHighPenalty))
         ELSE IF Gt(pe, PeMid * Centi)
         THEN Bump(st, -(PeMidPenalty * Scale),
                   Line("pe", "High P/E reduces", pe.v, -PeMidPenalty))
         ELSE IF Gt(pe, PeLow * Centi)
         THEN Bump(st, -(PeLowPenalty * Scale),
                   Line("pe", "Elevated P/E reduces", pe.v, -PeLowPenalty))
         ELSE st
    ELSE Missing(st, MissingPenalty * Scale,
                 Line("pe", "not available", 0, -MissingPenalty))

\* Volatility.
RuleVolatility(st, q) ==
    LET vol == _n(q.volatility_proxy) IN
    IF Present(vol)
    THEN IF Gt(vol, VolHigh)
         THEN Bump(st, -(VolHighPenalty * Scale),
                   Line("volatility", "High volatility reduces", vol.v, -VolHighPenalty))
         ELSE IF Gt(vol, VolMid)
         THEN Bump(st, -(VolMidPenalty * Scale),
                   Line("volatility", "Elevated volatility reduces", vol.v, -VolMidPenalty))
         ELSE st
    ELSE Missing(st, MissingPenalty * Scale,
                 Line("volatility", "not available", 0, -MissingPenalty))

\* The additional penalty for many missing metrics.
RuleCompleteness(st) ==
    IF st.na_count >= ManyMissing
    THEN Bump(st, -(ManyMissingPenalty * Scale),
              Line("completeness", "Many metrics missing", st.na_count, -ManyMissingPenalty))
    ELSE st

\* A slip in the order: the P/E rule evaluated before the range rule.
ApplyRulesPeFirst(q) ==
    RuleCompleteness(RuleVolatility(RuleRange(RulePe(
        RuleReturn(RuleEps(RuleRevenue(Start, q), q), q), q), q), q))

\* The rules in the order of the code.
ApplyRules(q) ==
    RuleCompleteness(
      RuleVolatility(RulePe(RuleRange(RuleReturn(RuleEps(RuleRevenue(Start, q), q), q), q), q), q))

\* A slip in the clamp: the lower bound forgotten.
FinalScoreNoFloor(raw) == Min(100, RoundHalfEven(raw, Scale))

\* score = max(0.0, min(100.0, round(score, 0)))
FinalScore(raw) == Max(0, Min(100, RoundHalfEven(raw, Scale)))

\* A slip in the thresholds: strict comparisons.
VerdictOfStrict(score) ==
    IF score > BuyThreshold THEN "BUY"
    ELSE IF score > HoldThreshold THEN "HOLD"
    ELSE "SELL"

VerdictOf(score) ==
    IF score >= BuyThreshold THEN "BUY"
    ELSE IF score >= HoldThreshold THEN "HOLD"
    ELSE "SELL"

\* A slip in the fraction: the six scored metrics taken for the key metrics.
ConfidenceBasisOfSix(q, na_count) ==
    LET vol == _n(q.volatility_proxy)
        pe == _n(q.pe_ratio)
        completeness == IF na_count >= ManyMissing THEN "low"
                        ELSE IF na_count >= 2 THEN "medium" ELSE "high"
        vol_label == IF Present(vol) /\ Gt(vol, VolMid) THEN "high"
                     ELSE IF Present(vol) THEN "medium" ELSE "unknown"
        valuation_certainty == IF Present(pe) THEN "P/E available"
                               ELSE "P/E unavailable"
    IN  "Data completeness: " \o completeness \o " ("
          \o ToString(KeyMetrics - 1 - na_count) \o "/" \o ToString(KeyMetrics - 1)
          \o " key metrics). Volatility: " \o vol_label
          \o ". Valuation certainty: " \o valuation_certainty \o "."

ConfidenceBasis(q, na_count) ==
    LET vol == _n(q.volatility_proxy)
        pe == _n(q.pe_ratio)
        completeness == IF na_count >= ManyMissing THEN "low"
                        ELSE IF na_count >= 2 THEN "medium" ELSE "high"
        vol_label == IF Present(vol) /\ Gt(vol, VolMid) THEN "high"
                     ELSE IF Present(vol) THEN "medium" ELSE "unknown"
        valuation_certainty == IF Present(pe) THEN "P/E available"
                               ELSE "P/E unavailable"
    IN  "Data completeness: " \o completeness \o " ("
          \o ToString(KeyMetrics - na_count) \o "/" \o ToString(KeyMetrics)
          \o " key metrics). Volatility: " \o vol_label
          \o ". Valuation certainty: " \o valuation_certainty \o "."

\* The returned dict.  raw and na_count are the function's locals, kept beside
\* the four returned keys so that statements about them can be made.
compute_rule_based_verdict(q) ==
    LET st == ApplyRules(q)
        score == FinalScore(st.score)
    IN  [verdict |-> VerdictOf(score),
         confidence_score |-> score,
         justification |-> st.justification,
         confidence_basis |-> ConfidenceBasis(q, st.na_count),
         raw |-> st.score,
         na_count |-> st.na_count]

NoVerdict ==
    [verdict |-> "", confidence_score |-> 0, justification |-> <<>>,
     confidence_basis |-> "", raw |-> 0, na_count |-> 0]

-----------------------------------------------------------------------------
(* Tickers: strings as sequences of characters *)

Alphabet == {" ", "a", "B"}

upper(c) == IF c = "a" THEN "A" ELSE c

\* str.upper()
Upper(s) == [i \in 1..Len(s) |-> upper(s[i])]

RECURSIVE LStrip(_)
LStrip(s) == IF s # <<>> /\ Head(s) = " " THEN LStrip(Tail(s)) ELSE s

RECURSIVE RStrip(_)
RStrip(s) ==
    IF s # <<>> /\ s[Len(s)] = " " THEN RStrip(SubSeq(s, 1, Len(s) - 1)) ELSE s

\* str.strip()
Strip(s) == RStrip(LStrip(s))

-----------------------------------------------------------------------------
(* quant_tool.py: fetch_market_data *)

\* A DataFrame of price history, by what the code reads of it: whether it is None,
\* its number of rows, its columns, Close.iloc[0], Close.iloc[-1], High.max(),
\* Low.min(), and std() * sqrt(252) of its daily returns (of three rows or more).
Frame(rows, cols, first, last, high, low, vol) ==
    [none |-> FALSE, rows |-> rows, cols |-> cols, first |-> first, last |-> last,
     high |-> high, low |-> low, vol |-> vol]
NoFrame ==
    [none |-> TRUE, rows |-> 0, cols |-> {}, first |-> 0, last |-> 0,
     high |-> 0, low |-> 0, vol |-> 0]
AllCols == {"Close", "High", "Low"}
EmptyFrame == Frame(0, AllCols, 0, 0, 0, 0, 0)

\* hist is not None and not hist.empty
NonEmpty(h) == ~h.none /\ h.rows > 0 /\ h.cols # {}

\* obj.info: a dict (a missing key or a None value is NA), or not a dict at all.
Info(price, regular, pe, cap, rev, eps) ==
    [dict |-> TRUE, currentPrice |-> price, regularMarketPrice |-> regular,
     trailingPE |-> pe, marketCap |-> cap, revenueGrowth |-> rev, earningsGrowth |-> eps]
EmptyInfo == Info(NA, NA, NA, NA, NA, NA)
NoInfo == [EmptyInfo EXCEPT !.dict = FALSE]

\* What yfinance does for one ticker: raise inside the try block, or hand out
\* info and the two histories.
Answer(info, h1y, h30) == [raises |-> FALSE, info |-> info, hist_1y |-> h1y, hist_30d |-> h30]
Raises == [raises |-> TRUE, info |-> EmptyInfo, hist_1y |-> NoFrame, hist_30d |-> NoFrame]

\* _num_or_na: floats pass, None becomes "N/A".
_num_or_na(v) == v

\* Python's a or b on None and floats: None and 0 are false, NaN is true.
Truthy(x) == x.k = "nan" \/ (x.k = "num" /\ x.v # 0)
PyOr(a, b) == IF Truthy(a) THEN a ELSE b

Returned(data) == [kind |-> "returned", exc |-> "", data |-> data]

_empty_response(ticker, error) ==
    [ticker |-> IF ticker = <<>> THEN <<"?">> ELSE ticker,
     current_price |-> NA, pe_ratio |-> NA, market_cap |-> NA,
     revenue_growth_yoy_pct |-> NA, eps_growth_pct |-> NA, return_30d_pct |-> NA,
     range_52w_low |-> NA, range_52w_high |-> NA, range_52w_position |-> NA,
     volatility_proxy |-> NA, data_available |-> FALSE,
     has_error |-> TRUE, error |-> error]

RaisedOut(exc) == [kind |-> "raised", exc |-> exc, data |-> _empty_response(<<>>, "")]
NotCalled == [kind |-> "none", exc |-> "", data |-> _empty_response(<<>>, "")]

\* round(float(x) * 100, 2) of a growth given in 1/100000: hundredths of a percent.
AsPercent(x) == IF x.k = "num" THEN Num(RoundHalfEven(x.v, 10)) ELSE x

\* Lines 72-78.  Closes are not negative.
Return30d(h30) ==
    IF NonEmpty(h30) /\ "Close" \in h30.cols /\ h30.rows >= 2 /\ h30.first # 0
    THEN Num(RoundHalfEven((h30.last - h30.first) * Centi * Centi, h30.first))
    ELSE NA

\* Lines 83-92: price_for_range is current_price when that is a float.
RangeKnown(h1y) == NonEmpty(h1y) /\ AllCols \subseteq h1y.cols
RangePosition(h1y, current_price) ==
    IF RangeKnown(h1y)
    THEN LET price_for_range == IF current_price.k # "na" THEN current_price
                                ELSE Num(h1y.last)
         IN  IF h1y.high > h1y.low
             THEN IF price_for_range.k = "nan" THEN NaN
                  ELSE Num(RoundHalfEven((price_for_range.v - h1y.low) * PosOne,
                                         h1y.high - h1y.low))
             ELSE NA
    ELSE NA

\* Lines 98-103.  pandas' std() of a single return is NaN.
VolatilityProxy(h1y) ==
    IF NonEmpty(h1y) /\ "Close" \in h1y.cols /\ h1y.rows > 1
    THEN IF h1y.rows - 1 > 1 THEN Num(h1y.vol) ELSE NaN
    ELSE NA

\* A slip in the availability gate: market_cap left out.
DataAvailableNoCap(current_price, pe_ratio, market_cap, volatility_proxy, return_30d) ==
    \/ current_price # NA
    \/ pe_ratio # NA
    \/ volatility_proxy # NA
    \/ return_30d # NA

\* Lines 106-112.
DataAvailable(current_price, pe_ratio, market_cap, volatility_proxy, return_30d) ==
    \/ current_price # NA
    \/ pe_ratio # NA
    \/ market_cap # NA
    \/ volatility_proxy # NA
    \/ return_30d # NA

\* Lines 42-129, the part after the try block: nothing here is caught.
Process(ticker, m) ==
    LET info == m.info
        price0 == PyOr(info.currentPrice, info.regularMarketPrice)
        from_close == price0 = NA /\ NonEmpty(m.hist_1y)
        current_price == _num_or_na(IF from_close THEN Num(m.hist_1y.last) ELSE price0)
        pe_ratio == _num_or_na(info.trailingPE)
        market_cap == _num_or_na(info.marketCap)
        return_30d == Return30d(m.hist_30d)
        volatility_proxy == VolatilityProxy(m.hist_1y)
    IN  IF ~info.dict THEN RaisedOut("AttributeError")
        ELSE IF from_close /\ "Close" \notin m.hist_1y.cols THEN RaisedOut("KeyError")
        ELSE Returned(
          [ticker |-> ticker,
           current_price |-> current_price,
           pe_ratio |-> pe_ratio,
           market_cap |-> market_cap,
           revenue_growth_yoy_pct |-> AsPercent(_num_or_na(info.revenueGrowth)),
           eps_growth_pct |-> AsPercent(_num_or_na(info.earningsGrowth)),
           return_30d_pct |-> return_30d,
           range_52w_low |-> IF RangeKnown(m.hist_1y) THEN Num(m.hist_1y.low) ELSE NA,
           range_52w_high |-> IF RangeKnown(m.hist_1y) THEN Num(m.hist_1y.high) ELSE NA,
           range_52w_position |-> RangePosition(m.hist_1y, current_price),
           volatility_proxy |-> volatility_proxy,
           data_available |->
               DataAvailable(current_price, pe_ratio, market_cap, volatility_proxy, return_30d),
           has_error |-> FALSE, error |-> ""])

\* fetch_market_data(ticker) with the module's yf and the provider's answer m.
fetch_market_data(ticker, have_yf, m) ==
    IF ~have_yf THEN Returned(_empty_response(ticker, "yfinance not installed"))
    ELSE LET t == Upper(Strip(ticker)) IN
         IF t = <<>> THEN Returned(_empty_response(t, "empty ticker"))
         ELSE IF m.raises THEN Returned(_empty_response(t, "lookup failed"))
         ELSE Process(t, m)

-----------------------------------------------------------------------------
(* SpecFetch: fetch_market_data applied to every answer of a grid *)

MaxTickerLen == 2
MaxRows == 3

RECURSIVE Strings(_)
Strings(n) ==
    IF n = 0 THEN {<<>>}
    ELSE Strings(n - 1) \cup
         {Append(s, c) : s \in {x \in Strings(n - 1) : Len(x) = n - 1}, c \in Alphabet}

Tickers == Strings(MaxTickerLen)

InfoValues ==
    {NoInfo} \cup
    {Info(price, regular, pe, cap, rev, eps) :
        price \in {NA, Num(0), Num(90), Num(130)}, regular \in {NA, Num(90)},
        pe \in {NA, Num(2500)}, cap \in {NA, Num(1000)},
        rev \in {NA, Num(12346), Num(-500)}, eps \in {NA, Num(20000)}}

ColumnSets == {AllCols, {"High", "Low"}, {"Close"}}

\* Low.min() <= Close.iloc[-1] <= High.max(); one row has one close.
Frames1y ==
    {NoFrame, EmptyFrame} \cup
    {f \in {Frame(rows, cols, last, last, hl[1], hl[2], IF rows >= 3 THEN vol ELSE 0) :
               rows \in 1..MaxRows, cols \in ColumnSets, last \in {80, 100},
               hl \in {<<100, 80>>, <<120, 50>>, <<100, 100>>}, vol \in {30, 80}} :
        f.low <= f.last /\ f.last <= f.high}

Frames30d ==
    {EmptyFrame} \cup
    {Frame(rows, cols, IF rows = 1 THEN last ELSE first, last, 0, 0, 0) :
        rows \in 1..MaxRows, cols \in {AllCols, {"High", "Low"}},
        first \in {0, 100}, last \in {95, 110}}

\* The answers of the grid: every info with a few histories, and a few infos
\* with every history.  obj.history(period="1mo") is asked for only when the
\* year's history is there.
FewFrames1y == {NoFrame, EmptyFrame, Frame(3, AllCols, 100, 100, 120, 50, 80)}
FewInfos ==
    {NoInfo, EmptyInfo, Info(Num(90), NA, NA, NA, NA, NA), Info(Num(130), NA, NA, NA, NA, NA),
     Info(NA, NA, NA, NA, Num(12346), Num(20000))}

Histories(frames1y, frames30d) ==
    {<<h1y, NoFrame>> : h1y \in {h \in frames1y : ~NonEmpty(h)}} \cup
    ({h \in frames1y : NonEmpty(h)} \X frames30d)

Answers ==
    {Raises} \cup
    {Answer(info, h[1], h[2]) : info \in InfoValues,
                                h \in Histories(FewFrames1y, {EmptyFrame})} \cup
    {Answer(info, h[1], h[2]) : info \in FewInfos, h \in Histories(Frames1y, Frames30d)}


-----------------------------------------------------------------------------
(* agents.py: the narrative generations *)

\* What _call_llm hands back: a bracketed placeholder, or the model's text.  Of
\* the text the code reads its ---VERDICT--- block (Lite mode); the block is
\*   absent | empty | bracket | garbage   no JSON object is read from it
\*   nonobject                            JSON, but no object (a number, a string)
\*   object                               a JSON object, with its "verdict" and
\*                                        its "confidence_score": missing, an
\*                                        int, a word such as "high", or null
Block(shape, verdict, conf, n) == [shape |-> shape, verdict |-> verdict, conf |-> conf, n |-> n]
NoBlock == Block("absent", "", "missing", 0)
Reply(kind, text, block) == [kind |-> kind, text |-> text, block |-> block]
ApiError == <<"[", "A", "P", "I", " ", "e", "r", "r", "o", "r", "]">>
Placeholder == Reply("placeholder", ApiError, NoBlock)

JudgeReturned(v, c) == [kind |-> "returned", exc |-> "", verdict |-> v, confidence_score |-> c]
JudgeRaised(exc) == [kind |-> "raised", exc |-> exc, verdict |-> "", confidence_score |-> 0]

_fallback_verdict == JudgeReturned("HOLD", 0)

\* _parse_judge_output on the text of the block.
_parse_judge_output(block) ==
    IF block.shape \in {"absent", "empty", "bracket", "garbage"} THEN _fallback_verdict
    ELSE IF block.shape = "nonobject" THEN JudgeRaised("AttributeError")
    ELSE LET verdict == IF block.verdict \in {"BUY", "HOLD", "AVOID"} THEN block.verdict
                        ELSE "HOLD"
         IN  CASE block.conf = "missing" -> JudgeReturned(verdict, 50)
               [] block.conf = "int" -> JudgeReturned(verdict, Max(0, Min(100, block.n)))
               [] block.conf = "word" -> JudgeRaised("ValueError")
               [] OTHER -> JudgeRaised("TypeError")

\* The literal markers and placeholders, character by character.
RisksMarker == <<"-", "-", "-", "R", "I", "S", "K", "S", "-", "-", "-">>
BullMarker == <<"-", "-", "-", "B", "U", "L", "L", "-", "-", "-">>
NoRisksParsed ==
    <<"[", "N", "o", " ", "r", "i", "s", "k", "s", " ", "p", "a", "r", "s", "e", "d", "]">>
NoBullParsed ==
    <<"[", "N", "o", " ", "b", "u", "l", "l", " ", "p", "a", "r", "s", "e", "d", "]">>
NoRisks == <<"[", "N", "o", " ", "r", "i", "s", "k", "s", "]">>
NoBullResponse ==
    <<"[", "N", "o", " ", "b", "u", "l", "l", " ", "r", "e", "s", "p", "o", "n", "s", "e", "]">>
NoBull == <<"[", "N", "o", " ", "b", "u", "l", "l", "]">>

\* str.find, counted from 1: where sub first occurs in s, 0 when it does not.
Find(s, sub) ==
    LET at == {i \in 1..(Len(s) - Len(sub) + 1) : SubSeq(s, i, i + Len(sub) - 1) = sub}
    IN  IF at = {} THEN 0 ELSE CHOOSE i \in at : \A j \in at : i <= j

\* sub in s
Contains(s, sub) == Find(s, sub) # 0

\* s.split(sub, 1): one part when sub does not occur, else the text before its
\* first occurrence and the text after it.
SplitOnce(s, sub) ==
    LET i == Find(s, sub)
    IN  IF i = 0 THEN <<s>>
        ELSE <<SubSeq(s, 1, i - 1), SubSeq(s, i + Len(sub), Len(s))>>

\* x or y, on strings
StrOr(x, y) == IF x # <<>> THEN x ELSE y

Pair(bear, bull) == [bear |-> bear, bull |-> bull]
NoPair == Pair(<<>>, <<>>)

\* _parse_bear_bull_combined
_parse_bear_bull_combined(raw) ==
    IF Contains(raw, RisksMarker) /\ Contains(raw, BullMarker)
    THEN LET parts == SplitOnce(raw, BullMarker)
             sub == SplitOnce(parts[1], RisksMarker)
             risks_part == Strip(sub[Len(sub)])
             bull == IF Len(parts) > 1 THEN Strip(parts[2]) ELSE <<>>
         IN  Pair(StrOr(risks_part, NoRisks), StrOr(bull, NoBullResponse))
    ELSE LET half == Len(raw) \div 2
         IN  Pair(StrOr(IF raw # <<>> THEN SubSeq(raw, 1, half) ELSE NoRisksParsed, NoRisks),
                  StrOr(IF raw # <<>> THEN SubSeq(raw, half + 1, Len(raw)) ELSE NoBullParsed,
                        NoBullResponse))

Narrative(kind, exc, bear, bull, verdict) ==
    [kind |-> kind, exc |-> exc, bear |-> bear, bull |-> bull, verdict |-> verdict]

\* _parse_lite_output: the verdict block first, then the two sections of the
\* text before ---VERDICT--- (raw.text).
_parse_lite_output(raw) ==
    LET verdict == IF raw.block.shape = "absent" THEN _fallback_verdict
                   ELSE _parse_judge_output(raw.block)
    IN  IF verdict.kind = "raised"
        THEN Narrative("raised", verdict.exc, <<>>, <<>>, _fallback_verdict)
        ELSE LET rest == raw.text IN
             IF Contains(rest, RisksMarker) /\ Contains(rest, BullMarker)
             THEN LET parts == SplitOnce(rest, BullMarker)
                      sub == SplitOnce(parts[1], RisksMarker)
                  IN  Narrative("returned", "", StrOr(Strip(sub[Len(sub)]), NoRisks),
                                StrOr(IF Len(parts) > 1 THEN Strip(parts[2]) ELSE <<>>, NoBull),
                                verdict)
             ELSE LET half == Max(1, Len(rest) \div 2)
                  IN  Narrative("returned", "", StrOr(SubSeq(rest, 1, half), NoRisks),
                                StrOr(SubSeq(rest, half + 1, Len(rest)), NoBull), verdict)

LiteNoData ==
    <<"[", "L", "i", "t", "e", " ", "m", "o", "d", "e", ";", " ",
      "n", "o", " ", "m", "a", "r", "k", "e", "t", " ", "d", "a", "t", "a", "]">>

run_lite_debate(raw, market_data_missing) ==
    IF market_data_missing
    THEN Narrative("returned", "", LiteNoData, LiteNoData, JudgeReturned("HOLD", 0))
    ELSE _parse_lite_output(raw)

run_bear_bull_combined(raw) ==
    LET r == _parse_bear_bull_combined(raw.text)
    IN  Narrative("returned", "", r.bear, r.bull, _fallback_verdict)

run_bear_agent(raw) == raw.text
run_bull_agent(raw, bear_output) == raw.text

-----------------------------------------------------------------------------
(* orchestrator.py: run_relay *)

\* The four keys of the verdict dict.
VerdictRecord(v) ==
    [verdict |-> v.verdict, confidence_score |-> v.confidence_score,
     justification |-> v.justification, confidence_basis |-> v.confidence_basis]

DegenerateVerdict ==
    [verdict |-> "HOLD", confidence_score |-> 0,
     justification |-> <<Line("data", "Insufficient market data; default verdict HOLD.", 0, 0)>>,
     confidence_basis |-> "Data completeness: none. Verdict not reliable."]

EmptyVerdict ==
    [verdict |-> "", confidence_score |-> 0, justification |-> <<>>, confidence_basis |-> ""]

\* A RelayContext, or the exception that left run_relay.  fetched_ok says that
\* quant_data was set; judge_calls counts the calls of compute_rule_based_verdict.
Relay(kind, exc, ticker, fetched_ok, data, bear, bull, judge_calls, verdict) ==
    [kind |-> kind, exc |-> exc, ticker |-> ticker, fetched_ok |-> fetched_ok,
     quant_data |-> data, market_data_missing |-> ~data.data_available,
     bear_output |-> bear, bull_output |-> bull,
     judge_calls |-> judge_calls, verdict |-> verdict]

NoRun == Relay("none", "", <<>>, FALSE, _empty_response(<<>>, ""), <<>>, <<>>, 0, EmptyVerdict)

\* Lines 191-200.
Debate(cfg, data, raw1, raw2) ==
    IF cfg.LITE_MODE THEN run_lite_debate(raw1, ~data.data_available)
    ELSE IF cfg.COMBINED_DEBATE THEN run_bear_bull_combined(raw1)
    ELSE Narrative("returned", "", run_bear_agent(raw1),
                   run_bull_agent(raw2, run_bear_agent(raw1)), _fallback_verdict)

\* A slip in the gate: the snapshot scored whether or not it holds data.
JudgeAlways(data) ==
    [calls |-> 1, verdict |-> VerdictRecord(compute_rule_based_verdict(data))]

\* A slip in the gate: a score of 0 taken for the sign of missing data.
JudgeZeroHolds(data) ==
    LET v == compute_rule_based_verdict(data)
    IN  IF ~data.data_available \/ v.confidence_score = 0
        THEN [calls |-> 0, verdict |-> DegenerateVerdict]
        ELSE [calls |-> 1, verdict |-> VerdictRecord(v)]

\* Lines 202-211 with the judge's call count.
Judge(data) ==
    IF ~data.data_available
    THEN [calls |-> 0, verdict |-> DegenerateVerdict]
    ELSE [calls |-> 1, verdict |-> VerdictRecord(compute_rule_based_verdict(data))]

\* run_relay(ticker) under configuration cfg, when the provider answers m and
\* the language model answers raw1 (and raw2 to the Bull prompt).
run_relay(ticker, cfg, have_yf, m, raw1, raw2) ==
    LET t == Strip(ticker)
        f == fetch_market_data(t, have_yf, m)
    IN  IF f.kind = "raised"
        THEN Relay("raised", f.exc, t, FALSE, f.data, <<>>, <<>>, 0, EmptyVerdict)
        ELSE LET d == Debate(cfg, f.data, raw1, raw2) IN
             IF d.kind = "raised"
             THEN Relay("raised", d.exc, t, TRUE, f.data, <<>>, <<>>, 0, EmptyVerdict)
             ELSE LET j == Judge(f.data)
                  IN  Relay("returned", "", t, TRUE, f.data, d.bear, d.bull,
                            j.calls, j.verdict)

-----------------------------------------------------------------------------
(* api.py: GET /api/analyze *)

Response(status, detail, body) == [status |-> status, detail |-> detail, body |-> body]
NoResponse == Response(0, "", NoRun)

\* analyze(ticker), given the outcome of its run_relay call.
analyze(ticker, out) ==
    IF Upper(Strip(ticker)) = <<>> THEN Response(400, "ticker is required", NoRun)
    ELSE IF out.kind = "raised"
    THEN Response(IF out.exc = "ValueError" THEN 400 ELSE 500, out.exc, NoRun)
    ELSE Response(200, "", out)

-----------------------------------------------------------------------------
(* profiles.py: the profile store.  The file is read and written whole. *)

Profile(id, name, tickers) == [id |-> id, name |-> name, tickers |-> tickers]

\* get_profile: the first profile of that id, as a one-element sequence, or <<>>.
get_profile(profiles, profile_id) ==
    LET hits == SelectSeq(profiles, LAMBDA p : p.id = profile_id)
    IN  IF hits = <<>> THEN <<>> ELSE <<Head(hits)>>

\* create_profile: the file with the new profile appended.
create_profile(profiles, id, name) ==
    LET n == IF Strip(name) = <<>> THEN <<"Unnamed profile">> ELSE Strip(name)
    IN  Append(profiles, Profile(id, n, <<>>))

RECURSIVE AddAll(_, _)
AddAll(tickers, add) ==
    IF add = <<>> THEN tickers
    ELSE LET t == Upper(Strip(Head(add)))
         IN  AddAll(IF t # <<>> /\ \A i \in 1..Len(tickers) : tickers[i] # t
                    THEN Append(tickers, t) ELSE tickers,
                    Tail(add))

\* list.remove: the first occurrence goes.
RemoveFirst(tickers, t) ==
    LET at == {i \in 1..Len(tickers) : tickers[i] = t}
    IN  IF at = {} THEN tickers
        ELSE LET i == CHOOSE j \in at : \A k \in at : j <= k
             IN  SubSeq(tickers, 1, i - 1) \o SubSeq(tickers, i + 1, Len(tickers))

RECURSIVE RemoveAll(_, _)
RemoveAll(tickers, remove) ==
    IF remove = <<>> THEN tickers
    ELSE RemoveAll(RemoveFirst(tickers, Upper(Strip(Head(remove)))), Tail(remove))

\* update_profile_tickers: found says whether a profile had that id; only the
\* first such profile is changed.
update_profile_tickers(profiles, profile_id, add, remove) ==
    LET at == {i \in 1..Len(profiles) : profiles[i].id = profile_id}
    IN  IF at = {} THEN [found |-> FALSE, profiles |-> profiles]
        ELSE LET i == CHOOSE j \in at : \A k \in at : j <= k
             IN  [found |-> TRUE,
                  profiles |-> [profiles EXCEPT
                      ![i].tickers = RemoveAll(AddAll(@, add), remove)]]

delete_profile(profiles, profile_id) ==
    LET at == {i \in 1..Len(profiles) : profiles[i].id = profile_id}
    IN  IF at = {} THEN [found |-> FALSE, profiles |-> profiles]
        ELSE LET i == CHOOSE j \in at : \A k \in at : j <= k
             IN  [found |-> TRUE,
                  profiles |-> SubSeq(profiles, 1, i - 1)
                                 \o SubSeq(profiles, i + 1, Len(profiles))]

-----------------------------------------------------------------------------
(* quant_tool.py: validate_ticker;  api.py: the profile endpoints *)

\* validate_ticker: "ok", "invalid", or "raised" when fetch_market_data raises.
validate_ticker(ticker, have_yf, m) ==
    LET f == fetch_market_data(ticker, have_yf, m)
    IN  IF f.kind = "raised" THEN "raised"
        ELSE IF f.data.data_available THEN "ok" ELSE "invalid"

StoreResponse(op, status, results, good) ==
    [op |-> op, status |-> status, results |-> results, good_to_invest |-> good]
NoStoreResponse == StoreResponse("", 0, <<>>, <<>>)

\* The validation loop of patch_profile: blank entries are skipped; answers[i]
\* is what the provider says of add_tickers[i].
Validations(add, have_yf, answers) ==
    [i \in 1..Len(add) |->
        IF Upper(Strip(add[i])) = <<>> THEN "ok"
        ELSE validate_ticker(Upper(Strip(add[i])), have_yf, answers[i])]

\* A slip in the handler: the invalid list is built but never looked at.
patch_profile_unchecked(profiles, profile_id, add, remove, have_yf, answers) ==
    LET v == Validations(add, have_yf, answers)
        raised == \E i \in 1..Len(add) : v[i] = "raised"
        u == update_profile_tickers(profiles, profile_id, add, remove)
    IN  IF raised THEN [status |-> 500, profiles |-> profiles]
        ELSE IF ~u.found THEN [status |-> 404, profiles |-> profiles]
        ELSE [status |-> 200, profiles |-> u.profiles]

\* patch_profile: [status, profiles].  An exception of validate_ticker leaves
\* the handler (500) at the first ticker that raises; the invalid tickers
\* found before it do not matter then.
patch_profile(profiles, profile_id, add, remove, have_yf, answers) ==
    LET v == Validations(add, have_yf, answers)
        raised == \E i \in 1..Len(add) : v[i] = "raised"
        invalid == \E i \in 1..Len(add) : v[i] = "invalid"
        u == update_profile_tickers(profiles, profile_id, add, remove)
    IN  IF raised THEN [status |-> 500, profiles |-> profiles]
        ELSE IF invalid THEN [status |-> 400, profiles |-> profiles]
        ELSE IF ~u.found THEN [status |-> 404, profiles |-> profiles]
        ELSE [status |-> 200, profiles |-> u.profiles]

\* One entry of check_watchlist's results: lines 141-168.
Entry(ticker, verdict, confidence_score, justification, data) ==
    [ticker |-> ticker, verdict |-> verdict, confidence_score |-> confidence_score,
     justification |-> justification, quant_data |-> data]

WatchEntry(ticker, out) ==
    IF out.kind = "returned"
    THEN Entry(out.ticker, out.verdict.verdict, out.verdict.confidence_score,
               out.verdict.justification, <<out.quant_data>>)
    ELSE IF out.exc = "ValueError"
    THEN Entry(ticker, "HOLD", 0, <<Line("error", out.exc, 0, 0)>>, <<>>)
    ELSE Entry(ticker, "HOLD", 0, <<Line("error", "Analysis failed: " \o out.exc, 0, 0)>>, <<>>)

NonBlank(tickers) == SelectSeq(tickers, LAMBDA t : Strip(t) # <<>>)

RECURSIVE GoodToInvest(_, _)
GoodToInvest(tickers, outs) ==
    IF tickers = <<>> THEN <<>>
    ELSE LET rest == GoodToInvest(Tail(tickers), Tail(outs))
         IN  IF Head(outs).kind = "returned" /\ Head(outs).verdict.verdict = "BUY"
             THEN <<Head(outs).ticker>> \o rest ELSE rest

\* A slip in the loop: no try around run_relay, so the first exception ends the batch.
check_watchlist_unguarded(profiles, profile_id, outs) ==
    LET p == get_profile(profiles, profile_id) IN
    IF p = <<>> THEN StoreResponse("check", 404, <<>>, <<>>)
    ELSE LET tickers == NonBlank(p[1].tickers)
         IN  IF \E i \in 1..Len(tickers) : outs[i].kind = "raised"
             THEN StoreResponse("check", 500, <<>>, <<>>)
             ELSE StoreResponse("check", 200,
                      [i \in 1..Len(tickers) |-> WatchEntry(Upper(Strip(tickers[i])), outs[i])],
                      GoodToInvest(tickers, outs))

\* check_watchlist; outs[i] is the outcome of run_relay for the i-th non-blank ticker.
check_watchlist(profiles, profile_id, outs) ==
    LET p == get_profile(profiles, profile_id) IN
    IF p = <<>> THEN StoreResponse("check", 404, <<>>, <<>>)
    ELSE LET tickers == NonBlank(p[1].tickers)
         IN  StoreResponse("check", 200,
                 [i \in 1..Len(tickers) |-> WatchEntry(Upper(Strip(tickers[i])), outs[i])],
                 GoodToInvest(tickers, outs))

-----------------------------------------------------------------------------
(* Spec: requests to /api/analyze *)

\* The market lists the tickers written with the letter A alone.
Listed(t) == t # <<>> /\ \A i \in 1..Len(t) : t[i] = "A"

\* What an unlisted ticker gets from yfinance: an error, or nothing at all.
UnlistedAnswers == {Raises, Answer(EmptyInfo, EmptyFrame, NoFrame)}

\* A listed ticker on a strong day, on a weak day, with growth figures only,
\* with a broken info, and with the lookup failing.
StrongAnswer ==
    Answer(Info(Num(55), NA, Num(2500), Num(1000), Num(40000), Num(30000)),
           Frame(3, AllCols, 100, 100, 120, 50, 30), Frame(2, AllCols, 100, 110, 0, 0, 0))
WeakAnswer ==
    Answer(Info(Num(130), NA, Num(9000), NA, Num(-500), NA),
           Frame(3, AllCols, 100, 100, 120, 50, 80), Frame(2, AllCols, 100, 95, 0, 0, 0))
MiddlingAnswer ==
    Answer(Info(Num(90), NA, Num(4000), Num(1000), Num(10000), NA),
           Frame(3, AllCols, 100, 100, 120, 50, 30), Frame(2, AllCols, 100, 105, 0, 0, 0))
GrowthOnlyAnswer ==
    Answer(Info(NA, NA, NA, NA, Num(40000), Num(30000)), EmptyFrame, NoFrame)
BrokenAnswer == Answer(NoInfo, EmptyFrame, NoFrame)
ListedAnswers ==
    {StrongAnswer, WeakAnswer, MiddlingAnswer, GrowthOnlyAnswer, BrokenAnswer, Raises}

AnswersFor(ticker) ==
    LET t == Upper(Strip(ticker)) IN
    IF t = <<>> THEN {Raises}
    ELSE IF Listed(t) THEN ListedAnswers ELSE UnlistedAnswers

\* Two generations: one that keeps the format, one that ignores it.
Sectioned == RisksMarker \o <<"x", " ">> \o BullMarker \o <<" ", "x">>
Unsectioned == <<"x", "x", "x">>

Replies ==
    {Placeholder,
     Reply("text", Sectioned, NoBlock),
     Reply("text", Sectioned, Block("object", "BUY", "int", 90)),
     Reply("text", Unsectioned, Block("object", "AVOID", "word", 0)),
     Reply("text", Sectioned, Block("object", "BUY", "null", 0)),
     Reply("text", Unsectioned, Block("nonobject", "", "missing", 0)),
     Reply("text", Sectioned, Block("garbage", "", "missing", 0))}
BullReplies == {Placeholder, Reply("text", Unsectioned, NoBlock)}

\* The generations a request makes: one in Lite and combined mode, two (Bear,
\* then Bull) otherwise; none for an empty ticker.
FirstReplies(cfg, ticker) ==
    IF Upper(Strip(ticker)) = <<>> THEN {Placeholder}
    ELSE IF cfg.LITE_MODE THEN Replies
    ELSE {r \in Replies : r.block = NoBlock \/ r.block.conf = "word"}
SecondReplies(cfg, ticker) ==
    IF Upper(Strip(ticker)) = <<>> \/ cfg.LITE_MODE \/ cfg.COMBINED_DEBATE THEN {Placeholder}
    ELSE BullReplies

Configs ==
    {[LITE_MODE |-> TRUE, COMBINED_DEBATE |-> FALSE],
     [LITE_MODE |-> FALSE, COMBINED_DEBATE |-> TRUE],
     [LITE_MODE |-> FALSE, COMBINED_DEBATE |-> FALSE]}

\* Both flags unset in the environment.
DefaultConfig == [LITE_MODE |-> FALSE, COMBINED_DEBATE |-> FALSE]

RelayTickers == {<<>>, <<" ">>, <<"a">>, <<"B">>, <<" ", "a">>}

Request(ticker, m, raw1, raw2) == [ticker |-> ticker, market |-> m, raw1 |-> raw1, raw2 |-> raw2]
NoRequest == Request(<<>>, Raises, Placeholder, Placeholder)

StoreRequest(op, profile_id, add, remove, answers, meetings) ==
    [op |-> op, profile_id |-> profile_id, add |-> add, remove |-> remove,
     answers |-> answers, meetings |-> meetings]
NoStoreRequest == StoreRequest("", 0, <<>>, <<>>, <<>>, <<>>)

StoreIdle ==
    /\ store = <<>>
    /\ next_id = 1
    /\ sreq = NoStoreRequest
    /\ sresp = NoStoreResponse

Snapshot(rev, eps, ret, pos, pe, vol, avail) ==
    [revenue_growth_yoy_pct |-> rev, eps_growth_pct |-> eps, return_30d_pct |-> ret,
     range_52w_position |-> pos, pe_ratio |-> pe, volatility_proxy |-> vol,
     data_available |-> avail]

AllAbsentIdle == Snapshot(NA, NA, NA, NA, NA, NA, FALSE)

ScoreIdle ==
    /\ quant_data = AllAbsentIdle
    /\ scored = NoVerdict
    /\ score_pc = "idle"

FetchIdle ==
    /\ ticker_arg = <<>>
    /\ market = Raises
    /\ fetched = NotCalled
    /\ fetch_pc = "idle"

\* The requests served at the same time (the sync endpoints run in worker threads).
MaxThreads == 2

Threads == 1..MaxThreads

\* A store operation: create_profile(name), update_profile_tickers(profile_id,
\* add, remove) or delete_profile(profile_id).
Op(kind, profile_id, name, add, remove) ==
    [kind |-> kind, profile_id |-> profile_id, name |-> name, add |-> add, remove |-> remove]
NoOp == Op("", 0, <<>>, <<>>, <<>>)

\* A request in flight: pc is "idle" before _load, "loaded" between _load and
\* the end of the operation, "done" after it; profiles is its loaded list.
Thread(pc, op, profiles) == [pc |-> pc, op |-> op, profiles |-> profiles]

RaceIdle ==
    /\ threads = [t \in Threads |-> Thread("none", NoOp, <<>>)]
    /\ file0 = <<>>

ParseIdle ==
    /\ raw_text = <<>>
    /\ parsed = NoPair
    /\ parse_pc = "idle"

RelayIdle ==
    /\ req = NoRequest
    /\ run = NoRun
    /\ resp = NoResponse

Init ==
    /\ ScoreIdle
    /\ FetchIdle
    /\ StoreIdle
    /\ RaceIdle
    /\ ParseIdle
    /\ yf \in BOOLEAN
    /\ config \in Configs
    /\ RelayIdle

\* One request to /api/analyze.  An empty ticker is refused before run_relay.
Analyze ==
    \E ticker \in RelayTickers :
    \E m \in AnswersFor(ticker) :
    \E raw1 \in FirstReplies(config, ticker), raw2 \in SecondReplies(config, ticker) :
        LET t == Upper(Strip(ticker))
            out == run_relay(t, config, yf, m, raw1, raw2)
        IN  /\ req' = Request(ticker, m, raw1, raw2)
            /\ run' = IF t = <<>> THEN run ELSE out
            /\ resp' = analyze(ticker, out)
            /\ UNCHANGED <<config, yf>>
            /\ UNCHANGED <<score_vars, fetch_vars, store_vars, parse_vars, race_vars>>

Next == Analyze

Spec == Init /\ [][Next]_vars

-----------------------------------------------------------------------------
(* SpecStore: the profile endpoints, one request at a time *)

MaxCreates == 1

Names == {<<>>, <<"a">>}
WatchTickers == {<<" ">>, <<"a">>, <<"a", "a">>, <<"a", " ">>, <<"B">>}
AddLists ==
    {<<>>} \cup {<<t>> : t \in WatchTickers}
           \cup {<<t, u>> : t \in {<<"a">>, <<"B">>}, u \in {<<"a", "a">>, <<"B">>, <<" ">>}}
RemoveLists == {<<>>, <<<<"a">>>>, <<<<"B">>>>}

\* What validate_ticker may be told of a ticker.
ValidationAnswers(ticker) ==
    LET t == Upper(Strip(ticker)) IN
    IF t = <<>> THEN {Raises}
    ELSE IF Listed(t) THEN {StrongAnswer, GrowthOnlyAnswer, BrokenAnswer}
    ELSE {Answer(EmptyInfo, EmptyFrame, NoFrame)}

AnswerLists(add) ==
    {a \in [1..Len(add) -> {StrongAnswer, GrowthOnlyAnswer, BrokenAnswer, Raises,
                            Answer(EmptyInfo, EmptyFrame, NoFrame)}] :
        \A i \in 1..Len(add) : a[i] \in ValidationAnswers(add[i])}

\* What one ticker of a watchlist meets when it is analysed.
WatchReplies(cfg) ==
    IF cfg.LITE_MODE
    THEN {Reply("text", Sectioned, Block("object", "BUY", "int", 90)),
          Reply("text", Unsectioned, Block("object", "AVOID", "word", 0))}
    ELSE {Reply("text", Sectioned, NoBlock)}
Meeting(m, raw1) == [market |-> m, raw1 |-> raw1]
Meetings(cfg) == {Meeting(m, raw1) : m \in ListedAnswers, raw1 \in WatchReplies(cfg)}

Serving == sresp = NoStoreResponse

\* The ids a request may name: those handed out so far, and one never handed out.
ProfileIds == 1..next_id

StoreInit ==
    /\ ScoreIdle
    /\ FetchIdle
    /\ RelayIdle
    /\ StoreIdle
    /\ RaceIdle
    /\ ParseIdle
    /\ yf \in BOOLEAN
    /\ config \in Configs

StoreFrame ==
    UNCHANGED <<score_vars, fetch_vars, relay_vars, yf, config, parse_vars, race_vars>>

\* POST /api/profiles
CreateProfile ==
    /\ Serving
    /\ next_id <= MaxCreates
    /\ \E name \in Names :
          /\ store' = create_profile(store, next_id, IF name = <<>> THEN <<"Unnamed profile">> ELSE name)
          /\ next_id' = next_id + 1
          /\ sreq' = StoreRequest("create", next_id, <<>>, <<>>, <<>>, <<>>)
          /\ sresp' = StoreResponse("create", 200, <<>>, <<>>)
    /\ StoreFrame

\* PATCH /api/profiles/{profile_id}
PatchProfile ==
    /\ Serving
    /\ \E profile_id \in ProfileIds, add \in AddLists, remove \in RemoveLists :
       \E answers \in AnswerLists(add) :
          LET r == patch_profile(store, profile_id, add, remove, yf, answers)
          IN  /\ store' = r.profiles
              /\ sreq' = StoreRequest("patch", profile_id, add, remove, answers, <<>>)
              /\ sresp' = StoreResponse("patch", r.status, <<>>, <<>>)
    /\ UNCHANGED next_id
    /\ StoreFrame

\* DELETE /api/profiles/{profile_id}
DeleteProfile ==
    /\ Serving
    /\ \E profile_id \in ProfileIds :
          LET r == delete_profile(store, profile_id)
          IN  /\ store' = r.profiles
              /\ sreq' = StoreRequest("delete", profile_id, <<>>, <<>>, <<>>, <<>>)
              /\ sresp' = StoreResponse("delete", IF r.found THEN 200 ELSE 404, <<>>, <<>>)
    /\ UNCHANGED next_id
    /\ StoreFrame

WatchOuts(tickers, meetings) ==
    [i \in 1..Len(tickers) |->
        run_relay(Upper(Strip(tickers[i])), config, yf,
                  meetings[i].market, meetings[i].raw1, Placeholder)]

\* POST /api/profiles/{profile_id}/check-watchlist
CheckWatchlist ==
    /\ Serving
    /\ \E profile_id \in ProfileIds :
          LET p == get_profile(store, profile_id)
              tickers == IF p = <<>> THEN <<>> ELSE NonBlank(p[1].tickers)
          IN  \E meetings \in [1..Len(tickers) -> Meetings(config)] :
                 /\ sreq' = StoreRequest("check", profile_id, <<>>, <<>>, <<>>, meetings)
                 /\ sresp' = check_watchlist(store, profile_id, WatchOuts(tickers, meetings))
    /\ UNCHANGED <<store, next_id>>
    /\ StoreFrame

\* The response is sent; the next request may come.
Respond ==
    /\ ~Serving
    /\ sreq' = NoStoreRequest
    /\ sresp' = NoStoreResponse
    /\ UNCHANGED <<store, next_id>>
    /\ StoreFrame

StoreNext ==
    \/ CreateProfile
    \/ PatchProfile
    \/ DeleteProfile
    \/ CheckWatchlist
    \/ Respond

SpecStore == StoreInit /\ [][StoreNext]_vars

-----------------------------------------------------------------------------
(* SpecRace: store operations of requests served at the same time.  Each is *)
(* _load, a change of the loaded list, and _save of the whole list; nothing  *)
(* in profiles.py or api.py holds a lock between the two.                    *)

\* uuid4 never repeats: the id a create_profile of thread t makes up.
NewId(t) == next_id + t - 1

\* What the operation makes of the list it loaded, and whether it calls _save
\* (update and delete return without saving when no profile has the id).
Effect(t, op, profiles) ==
    CASE op.kind = "create" ->
           [saved |-> TRUE, profiles |-> create_profile(profiles, NewId(t), op.name)]
      [] op.kind = "update" ->
           LET u == update_profile_tickers(profiles, op.profile_id, op.add, op.remove)
           IN  [saved |-> u.found, profiles |-> u.profiles]
      [] op.kind = "delete" ->
           LET d == delete_profile(profiles, op.profile_id)
           IN  [saved |-> d.found, profiles |-> d.profiles]
      [] OTHER -> [saved |-> FALSE, profiles |-> profiles]

RaceFiles ==
    {<<>>,
     <<Profile(1, <<"a">>, <<>>)>>,
     <<Profile(1, <<"a">>, <<<<"A">>>>), Profile(2, <<"a">>, <<>>)>>}

RaceOps ==
    {Op("create", 0, <<"a">>, <<>>, <<>>),
     Op("update", 1, <<>>, <<<<"a">>>>, <<>>),
     Op("update", 1, <<>>, <<<<"B">>>>, <<>>),
     Op("update", 1, <<>>, <<>>, <<<<"a">>>>),
     Op("update", 2, <<>>, <<<<"B">>>>, <<>>),
     Op("delete", 1, <<>>, <<>>, <<>>)}

RaceInit ==
    /\ ScoreIdle
    /\ FetchIdle
    /\ RelayIdle
    /\ ParseIdle
    /\ yf = TRUE
    /\ config = DefaultConfig
    /\ store \in RaceFiles
    /\ next_id = 3
    /\ sreq = NoStoreRequest
    /\ sresp = NoStoreResponse
    /\ file0 = store
    /\ threads \in [Threads -> {Thread("idle", op, <<>>) : op \in RaceOps}]

RaceFrame ==
    UNCHANGED <<score_vars, fetch_vars, relay_vars, parse_vars, yf, config,
                next_id, sreq, sresp, file0>>

\* profiles = _load()
Load(t) ==
    /\ threads[t].pc = "idle"
    /\ threads' = [threads EXCEPT ![t] = Thread("loaded", @.op, store)]
    /\ UNCHANGED store
    /\ RaceFrame

\* The loaded list is changed and _save(profiles) writes it over the file.
Save(t) ==
    /\ threads[t].pc = "loaded"
    /\ LET e == Effect(t, threads[t].op, threads[t].profiles)
       IN  /\ e.saved
           /\ store' = e.profiles
           /\ threads' = [threads EXCEPT ![t] = Thread("done", @.op, e.profiles)]
    /\ RaceFrame

\* No profile of that id in the loaded list: the operation returns, nothing saved.
Return(t) ==
    /\ threads[t].pc = "loaded"
    /\ ~Effect(t, threads[t].op, threads[t].profiles).saved
    /\ threads' = [threads EXCEPT ![t] = Thread("done", @.op, @.profiles)]
    /\ UNCHANGED store
    /\ RaceFrame

RaceNext ==
    \/ \E t \in Threads : Load(t)
    \/ \E t \in Threads : Save(t)
    \/ \E t \in Threads : Return(t)

SpecRace == RaceInit /\ [][RaceNext]_vars

-----------------------------------------------------------------------------
(* SpecParse: _parse_bear_bull_combined on generations built of a few pieces *)

MaxPieces == 4

Pieces == {RisksMarker, BullMarker, <<" ">>, <<"x">>, <<"-">>}

RECURSIVE Texts(_)
Texts(n) ==
    IF n = 0 THEN {<<>>}
    ELSE LET shorter == Texts(n - 1)
         IN  shorter \cup {t \o p : t \in shorter, p \in Pieces}

ParseInit ==
    /\ ScoreIdle
    /\ FetchIdle
    /\ RelayIdle
    /\ StoreIdle
    /\ RaceIdle
    /\ yf = TRUE
    /\ config = DefaultConfig
    /\ raw_text \in Texts(MaxPieces)
    /\ parsed = NoPair
    /\ parse_pc = "call"

Parse ==
    /\ parse_pc = "call"
    /\ parsed' = _parse_bear_bull_combined(raw_text)
    /\ parse_pc' = "done"
    /\ UNCHANGED raw_text
    /\ UNCHANGED <<score_vars, fetch_vars, relay_vars, store_vars, yf, config, race_vars>>

ParseNext == Parse

SpecParse == ParseInit /\ [][ParseNext]_vars

-----------------------------------------------------------------------------
(* SpecFetch: the initial states and the step *)

FetchInit ==
    /\ ScoreIdle
    /\ RelayIdle
    /\ StoreIdle
    /\ RaceIdle
    /\ ParseIdle
    /\ config = DefaultConfig
    /\ fetched = NotCalled
    /\ fetch_pc = "call"
    /\ \/ yf \in BOOLEAN /\ ticker_arg \in Tickers /\ market \in {Raises}
       \/ yf = TRUE /\ ticker_arg = <<"a">> /\ market \in Answers

Fetch ==
    /\ fetch_pc = "call"
    /\ fetched' = fetch_market_data(ticker_arg, yf, market)
    /\ fetch_pc' = "done"
    /\ UNCHANGED <<yf, ticker_arg, market>>
    /\ UNCHANGED <<score_vars, config, relay_vars, store_vars, parse_vars, race_vars>>

FetchNext == Fetch

SpecFetch == FetchInit /\ [][FetchNext]_vars

-----------------------------------------------------------------------------
(* SpecScore: compute_rule_based_verdict applied to every snapshot of a grid *)

RevValues == {NA, Num(-200), Num(0), Num(100), Num(300), Num(2000), Num(4000)}
EpsValues == {NA, Num(-300), Num(0), Num(100), Num(450), Num(1500), Num(6000)}
RetValues == {NA, Num(-2000), Num(-100), Num(0), Num(400), Num(500), Num(2000)}
PosValues == {NA, Num(1000), Num(2000), Num(5000), Num(8000), Num(9000)}
PeValues == {NA, Num(-500), Num(2500), Num(3000), Num(4000), Num(5000), Num(6000),
             Num(8000), Num(9000)}
VolValues == {NA, NaN, Num(30), Num(50), Num(60), Num(70), Num(80)}

ScoreSnapshots ==
    {Snapshot(rev, eps, ret, pos, pe, vol, TRUE) :
        rev \in RevValues, eps \in EpsValues, ret \in RetValues,
        pos \in PosValues, pe \in PeValues, vol \in VolValues}

ScoreInit ==
    /\ quant_data \in ScoreSnapshots
    /\ scored = NoVerdict
    /\ score_pc = "call"
    /\ FetchIdle
    /\ yf = TRUE
    /\ config = DefaultConfig
    /\ RelayIdle
    /\ StoreIdle
    /\ RaceIdle
    /\ ParseIdle

Score ==
    /\ score_pc = "call"
    /\ scored' = compute_rule_based_verdict(quant_data)
    /\ score_pc' = "done"
    /\ UNCHANGED quant_data
    /\ UNCHANGED <<yf, fetch_vars, config, relay_vars, store_vars, parse_vars, race_vars>>

ScoreNext == Score

SpecScore == ScoreInit /\ [][ScoreNext]_vars

-----------------------------------------------------------------------------
(* Claims about compute_rule_based_verdict, under SpecScore *)

ScoreDone == score_pc = "done"

\* C3: the verdict is BUY when the final score is >= 70, HOLD when it is in
\* 40..69 and SELL when it is below 40.
C3_VerdictThresholds ==
    ScoreDone =>
        /\ scored.confidence_score >= 70 => scored.verdict = "BUY"
        /\ (scored.confidence_score >= 40 /\ scored.confidence_score < 70)
               => scored.verdict = "HOLD"
        /\ scored.confidence_score < 40 => scored.verdict = "SELL"

\* A snapshot scored exactly 70, the lowest BUY.
C3_Witness == ScoreDone /\ scored.confidence_score = 70 /\ scored.verdict = "BUY"

\* The other three boundary scores of the claim.
C3_Boundary69 == ScoreDone /\ scored.confidence_score = 69 /\ scored.verdict = "HOLD"
C3_Boundary40 == ScoreDone /\ scored.confidence_score = 40 /\ scored.verdict = "HOLD"
C3_Boundary39 == ScoreDone /\ scored.confidence_score = 39 /\ scored.verdict = "SELL"

\* The table of rule contributions as the specification gives it, in 1/Scale
\* of a point, for a metric that is a number or absent.
TableRevenue(x) ==
    IF x.k = "na" THEN -(5 * Scale)
    ELSE IF x.v > 0 THEN Min(15 * Scale, (x.v * Scale) \div (2 * Centi))
    ELSE -(5 * Scale)
TableEps(x) ==
    IF x.k = "na" THEN -(5 * Scale)
    ELSE IF x.v > 0 THEN Min(10 * Scale, (x.v * Scale) \div (3 * Centi))
    ELSE -(5 * Scale)
TableReturn(x) ==
    IF x.k = "na" THEN -(5 * Scale)
    ELSE IF x.v > 0 THEN Min(10 * Scale, (x.v * Scale) \div Centi)
    ELSE -Min(10 * Scale, (Abs(x.v) * Scale) \div Centi)
TableRange(x) ==
    IF x.k = "na" THEN 0
    ELSE IF x.v > 8000 THEN -(5 * Scale)
    ELSE IF x.v < 2000 THEN 5 * Scale
    ELSE 0
TablePe(x) ==
    IF x.k = "na" THEN -(5 * Scale)
    ELSE IF x.v > 80 * Centi THEN -(20 * Scale)
    ELSE IF x.v > 50 * Centi THEN -(15 * Scale)
    ELSE IF x.v > 30 * Centi THEN -(10 * Scale)
    ELSE 0
TableVolatility(x) ==
    IF x.k = "na" THEN -(5 * Scale)
    ELSE IF x.v > 70 THEN -(15 * Scale)
    ELSE IF x.v > 50 THEN -(10 * Scale)
    ELSE 0
ScoredFields ==
    {"revenue_growth_yoy_pct", "eps_growth_pct", "return_30d_pct",
     "range_52w_position", "pe_ratio", "volatility_proxy"}
AbsentCount(q) == Cardinality({f \in ScoredFields : q[f].k = "na"})
TableSum(q) ==
    50 * Scale + TableRevenue(q.revenue_growth_yoy_pct) + TableEps(q.eps_growth_pct)
      + TableReturn(q.return_30d_pct) + TableRange(q.range_52w_position)
      + TablePe(q.pe_ratio) + TableVolatility(q.volatility_proxy)
      + (IF AbsentCount(q) >= 4 THEN -(10 * Scale) ELSE 0)
Clamped(x) == Max(0, Min(100 * Scale, x))
NoNaN(q) == \A f \in ScoredFields : q[f].k # "nan"

ExampleSnapshot ==
    Snapshot(Num(2000), Num(1500), Num(500), Num(1000), Num(2500), Num(30), TRUE)

\* C4: confidence_score is 50 plus the seven contributions of the table,
\* clamped to [0,100] and rounded to the nearest integer; the example
\* snapshot scores 75, BUY, with na_count 0.
C4_ScoreIsTableSum ==
    (ScoreDone /\ NoNaN(quant_data)) =>
        /\ scored.confidence_score \in 0..100
        /\ 2 * Abs(scored.confidence_score * Scale - Clamped(TableSum(quant_data))) <= Scale
        /\ scored.na_count = AbsentCount(quant_data)
        /\ quant_data = ExampleSnapshot =>
              (scored.confidence_score = 75 /\ scored.verdict = "BUY" /\ scored.na_count = 0)

\* The example snapshot of the claim, scored.
C4_Witness ==
    ScoreDone /\ quant_data = ExampleSnapshot /\ scored.confidence_score = 75

AllAbsent == Snapshot(NA, NA, NA, NA, NA, NA, TRUE)

NotAvailableLines(j) == {i \in 1..Len(j) : j[i].msg = "not available"}

\* C5 as stated: with every scored metric absent, na_count is 6, six
\* penalties of 5 and the completeness penalty apply, and the result is 10, SELL.
C5_AllAbsentScoresTen ==
    (ScoreDone /\ quant_data = AllAbsent) =>
        /\ scored.na_count = 6
        /\ scored.raw = (50 - 6 * 5 - 10) * Scale
        /\ scored.confidence_score = 10
        /\ scored.verdict = "SELL"

\* C5 amended: with every scored metric absent, na_count is 6, five
\* penalties of 5 (the absent range position carries none) and the
\* completeness penalty of 10 apply, and the result is 15, SELL.
C5_AllAbsentScoresFifteen ==
    (ScoreDone /\ quant_data = AllAbsent) =>
        /\ scored.na_count = 6
        /\ Cardinality(NotAvailableLines(scored.justification)) = 5
        /\ scored.justification[Len(scored.justification)].rule = "completeness"
        /\ scored.raw = (50 - 5 * 5 - 10) * Scale
        /\ scored.confidence_score = 15
        /\ scored.verdict = "SELL"

\* The all-absent snapshot, scored.
C5_Witness == ScoreDone /\ quant_data = AllAbsent /\ scored.verdict = "SELL"

\* C6: confidence_score is an integer in [0,100]; a sum below 0 gives 0 and
\* SELL, a sum above 100 gives 100 and BUY.
C6_ClampedScore ==
    ScoreDone =>
        /\ scored.confidence_score \in 0..100
        /\ scored.verdict \in {"BUY", "HOLD", "SELL"}
        /\ scored.raw < 0 => (scored.confidence_score = 0 /\ scored.verdict = "SELL")
        /\ scored.raw > 100 * Scale =>
              (scored.confidence_score = 100 /\ scored.verdict = "BUY")

\* A snapshot whose contributions sum below 0.
C6_Witness == ScoreDone /\ scored.raw < 0 /\ scored.confidence_score = 0

-----------------------------------------------------------------------------
(* Claims about fetch_market_data, under SpecFetch *)

FetchDone == fetch_pc = "done"

MetricFields ==
    {"current_price", "pe_ratio", "market_cap", "revenue_growth_yoy_pct", "eps_growth_pct",
     "return_30d_pct", "range_52w_low", "range_52w_high", "range_52w_position",
     "volatility_proxy"}

AllUnavailable(d) ==
    /\ \A f \in MetricFields : d[f] = NA
    /\ d.data_available = FALSE
    /\ d.has_error

\* The failures the claim lists: library absent, empty ticker, lookup error,
\* an info that is no dict, a history without its Close column.
FetchFailed ==
    \/ ~yf
    \/ Upper(Strip(ticker_arg)) = <<>>
    \/ market.raises
    \/ ~market.info.dict
    \/ (NonEmpty(market.hist_1y) /\ "Close" \notin market.hist_1y.cols
          /\ PyOr(market.info.currentPrice, market.info.regularMarketPrice) = NA)

\* C8: fetch_market_data never propagates an exception; every failure yields
\* the all-"N/A" snapshot with data_available false and an error annotation.
C8_NeverPropagates ==
    FetchDone =>
        /\ fetched.kind = "returned"
        /\ FetchFailed => AllUnavailable(fetched.data)

KeyFields ==
    {"current_price", "pe_ratio", "market_cap", "volatility_proxy", "return_30d_pct"}

\* C9: in every returned snapshot, data_available is true iff one of
\* current_price, pe_ratio, market_cap, volatility_proxy, return_30d_pct is
\* not "N/A".
C9_DataAvailableIff ==
    (FetchDone /\ fetched.kind = "returned") =>
        (fetched.data.data_available = TRUE
            <=> \E f \in KeyFields : fetched.data[f] # NA)

\* A returned snapshot that has growth figures and still no data.
C9_Witness ==
    /\ FetchDone
    /\ fetched.kind = "returned"
    /\ fetched.data.revenue_growth_yoy_pct # NA
    /\ fetched.data.eps_growth_pct # NA
    /\ fetched.data.data_available = FALSE

\* A returned snapshot made available by its market_cap alone.
C9_CapOnly ==
    /\ FetchDone
    /\ fetched.kind = "returned"
    /\ fetched.data.data_available = TRUE
    /\ \A f \in KeyFields \ {"market_cap"} : fetched.data[f] = NA

-----------------------------------------------------------------------------
(* Claims about run_relay and /api/analyze, under Spec *)

\* C1: when the fetched snapshot has data_available false, run_relay never
\* calls compute_rule_based_verdict and the verdict is the fixed record
\* (HOLD, 0, the insufficient-data line, "Data completeness: none"), in every
\* narrative mode.
C1_DegenerateVerdict ==
    (run.fetched_ok /\ run.quant_data.data_available = FALSE) =>
        /\ run.kind = "returned"
        /\ run.judge_calls = 0
        /\ run.verdict = DegenerateVerdict
        /\ run.verdict.verdict = "HOLD"
        /\ run.verdict.confidence_score = 0
        /\ Len(run.verdict.justification) = 1

\* A Lite-mode run on a snapshot that has growth figures and no data.
C1_Witness ==
    /\ run.kind = "returned"
    /\ config.LITE_MODE
    /\ run.quant_data.data_available = FALSE
    /\ run.quant_data.revenue_growth_yoy_pct # NA
    /\ run.verdict = DegenerateVerdict

\* The same in the other two modes.
C1_Combined ==
    run.kind = "returned" /\ config.COMBINED_DEBATE /\ ~run.quant_data.data_available
C1_Sequential ==
    /\ run.kind = "returned" /\ ~config.COMBINED_DEBATE /\ ~config.LITE_MODE
    /\ ~run.quant_data.data_available

\* C2: two runs of run_relay on identical snapshots yield identical verdict
\* records, whatever the narrative generations returned.
C2_VerdictFromSnapshotAlone ==
    [][(run.fetched_ok /\ run'.fetched_ok /\ run'.quant_data = run.quant_data) =>
          /\ run.kind = "returned"
          /\ run'.kind = "returned"
          /\ run'.verdict = run.verdict]_vars

\* C7: a request for an empty ticker, or for a ticker the market does not
\* list, is rejected with a validation error and gets no result record.
C7_InvalidTickerRejected ==
    (resp.status # 0 /\ ~Listed(Upper(Strip(req.ticker)))) => resp.status = 400

-----------------------------------------------------------------------------
(* Claims about check_watchlist, under SpecStore *)

Checked == sresp.op = "check" /\ get_profile(store, sreq.profile_id) # <<>>

CheckedTickers == NonBlank(get_profile(store, sreq.profile_id)[1].tickers)

\* The tickers of the entries whose verdict is BUY, in the order of the entries.
BuyTickers(results) ==
    LET buys == SelectSeq(results, LAMBDA e : e.verdict = "BUY")
    IN  [i \in 1..Len(buys) |-> buys[i].ticker]

\* C10: check_watchlist on an existing profile answers 200 with one entry per
\* non-blank ticker, in watchlist order; a ticker whose pipeline raises gets
\* a degraded entry (HOLD, 0, the error text) and every other ticker the
\* entry of its own run; good_to_invest lists the tickers of the BUY entries.
C10_WatchlistIsolatesFailures ==
    Checked =>
        LET outs == WatchOuts(CheckedTickers, sreq.meetings)
            results == sresp.results
        IN  /\ sresp.status = 200
            /\ Len(results) = Len(CheckedTickers)
            /\ \A i \in 1..Len(results) :
                  /\ results[i].ticker = Upper(Strip(CheckedTickers[i]))
                  /\ outs[i].kind = "raised" =>
                        /\ results[i].verdict = "HOLD"
                        /\ results[i].confidence_score = 0
                        /\ Len(results[i].justification) = 1
                        /\ results[i].justification[1].rule = "error"
                        /\ results[i].quant_data = <<>>
                  /\ outs[i].kind = "returned" =>
                        /\ results[i].verdict = outs[i].verdict.verdict
                        /\ results[i].confidence_score = outs[i].verdict.confidence_score
                        /\ results[i].justification = outs[i].verdict.justification
                        /\ results[i].quant_data = <<outs[i].quant_data>>
            /\ sresp.good_to_invest = BuyTickers(results)

\* A watchlist of two: the first ticker's pipeline raises, the second is a BUY.
C10_Witness ==
    /\ Checked
    /\ Len(sresp.results) = 2
    /\ sresp.results[1].quant_data = <<>>
    /\ sresp.results[1].verdict = "HOLD"
    /\ sresp.results[2].verdict = "BUY"
    /\ sresp.good_to_invest = <<sresp.results[2].ticker>>

-----------------------------------------------------------------------------
(* C11 *)

\* The tickers of the profile of that id, as a set.
StoredTickers(profiles, profile_id) ==
    LET p == get_profile(profiles, profile_id)
    IN  IF p = <<>> THEN {} ELSE {p[1].tickers[i] : i \in 1..Len(p[1].tickers)}

\* What validate_ticker said of each entry of the request being answered.
Said == Validations(sreq.add, yf, sreq.answers)
SaidNext == Validations(sreq'.add, yf, sreq'.answers)

\* C11: a PATCH request in which some non-empty ticker of add_tickers fails
\* validation (or validation raises) is refused and leaves the stored
\* profiles as they were, removes included; and whatever step is taken, a
\* ticker that is new in a stored watchlist was named in the add_tickers of
\* the PATCH request just served and validate_ticker accepted it.
C11_OnlyValidatedTickersAdded ==
    [][/\ (sreq'.op = "patch" /\ \E i \in 1..Len(sreq'.add) : SaidNext[i] # "ok")
           => (sresp'.status \in {400, 500} /\ store' = store)
       /\ \A id \in 1..MaxCreates + 1 :
           \A t \in StoredTickers(store', id) \ StoredTickers(store, id) :
              /\ sreq'.op = "patch"
              /\ sreq'.profile_id = id
              /\ \E i \in 1..Len(sreq'.add) :
                     Upper(Strip(sreq'.add[i])) = t /\ SaidNext[i] = "ok"
      ]_vars

\* A request that adds B (not listed) and removes A from a watchlist holding A
\* has been refused: A is still stored.
C11_Witness ==
    /\ sreq.op = "patch"
    /\ sresp.status = 400
    /\ \E i \in 1..Len(sreq.add) : Said[i] = "invalid"
    /\ sreq.remove = <<<<"a">>>>
    /\ <<"A">> \in StoredTickers(store, sreq.profile_id)

\* A request whose tickers all passed has added one.
C11_Added ==
    /\ sreq.op = "patch"
    /\ sresp.status = 200
    /\ sreq.add # <<>>
    /\ \A i \in 1..Len(sreq.add) : Said[i] = "ok"
    /\ <<"A", "A">> \in StoredTickers(store, sreq.profile_id)

-----------------------------------------------------------------------------
(* C12, under SpecParse *)

ParseDone == parse_pc = "done"

BothMarkers(raw) == Contains(raw, RisksMarker) /\ Contains(raw, BullMarker)

\* The text between the first ---RISKS--- and the first ---BULL---; there is
\* none when no ---RISKS--- ends before the first ---BULL--- begins.
BetweenMarkers(raw) ==
    LET r == Find(raw, RisksMarker)
        b == Find(raw, BullMarker)
    IN  IF r # 0 /\ r + Len(RisksMarker) <= b
        THEN SubSeq(raw, r + Len(RisksMarker), b - 1)
        ELSE <<>>

AfterFirstBull(raw) ==
    LET b == Find(raw, BullMarker)
    IN  SubSeq(raw, b + Len(BullMarker), Len(raw))

Bracketed(s) == s # <<>> /\ Head(s) = "[" /\ s[Len(s)] = "]"

\* a part, or a bracketed placeholder when the part is empty
PartOrPlaceholder(part, got) == IF part # <<>> THEN got = part ELSE Bracketed(got)

\* C12: _parse_bear_bull_combined returns two non-empty strings; when both
\* markers occur, bear is the trimmed text between ---RISKS--- and the first
\* ---BULL--- and bull the trimmed text after the first ---BULL---; when a
\* marker is missing, bear is the first floor(len/2) characters and bull the
\* rest; an empty part is replaced by a bracketed placeholder.
C12_SectionsBetweenMarkers ==
    ParseDone =>
        /\ parsed.bear # <<>>
        /\ parsed.bull # <<>>
        /\ IF BothMarkers(raw_text)
           THEN /\ PartOrPlaceholder(Strip(BetweenMarkers(raw_text)), parsed.bear)
                /\ PartOrPlaceholder(Strip(AfterFirstBull(raw_text)), parsed.bull)
           ELSE LET half == Len(raw_text) \div 2
                IN  /\ PartOrPlaceholder(SubSeq(raw_text, 1, half), parsed.bear)
                    /\ PartOrPlaceholder(SubSeq(raw_text, half + 1, Len(raw_text)), parsed.bull)

\* The parts of the statement that hold: the result is never empty, bull is the
\* text after the first ---BULL---, and the halves when a marker is missing.
C12_BullAndFallback ==
    ParseDone =>
        /\ parsed.bear # <<>>
        /\ parsed.bull # <<>>
        /\ IF BothMarkers(raw_text)
           THEN /\ PartOrPlaceholder(Strip(AfterFirstBull(raw_text)), parsed.bull)
                /\ Find(raw_text, RisksMarker) < Find(raw_text, BullMarker)
                      => PartOrPlaceholder(Strip(BetweenMarkers(raw_text)), parsed.bear)
           ELSE LET half == Len(raw_text) \div 2
                IN  /\ PartOrPlaceholder(SubSeq(raw_text, 1, half), parsed.bear)
                    /\ PartOrPlaceholder(SubSeq(raw_text, half + 1, Len(raw_text)), parsed.bull)

\* The markers in the other order: bear is the text before ---BULL---.
C12_MarkersReversed ==
    /\ ParseDone
    /\ raw_text = <<"x">> \o BullMarker \o <<"x">> \o RisksMarker
    /\ parsed = Pair(<<"x">>, <<"x">> \o RisksMarker)

-----------------------------------------------------------------------------
(* C13 and C14, under SpecScore *)

RuleOrder == <<"revenue", "eps", "return30", "range52w", "pe", "volatility", "completeness">>

Rank(rule) == CHOOSE i \in 1..Len(RuleOrder) : RuleOrder[i] = rule

HasLine(j, rule) == \E i \in 1..Len(j) : j[i].rule = rule

C13_AllSeven ==
    /\ ScoreDone
    /\ [i \in 1..Len(scored.justification) |-> scored.justification[i].rule] = RuleOrder

\* C14: in confidence_basis the completeness bucket is low when na_count >= 4,
\* medium when 2 <= na_count < 4, high otherwise; the fraction reads
\* (7 - na_count)/7 with na_count the number of absent scored metrics, in 0..6,
\* so the numerator lies in 1..7; the bucket is low exactly when the
\* completeness penalty was applied; the volatility label is high above 0.5,
\* medium when present and <= 0.5, unknown when absent.  (The label is stated
\* of numbers and "N/A"; a NaN is neither.)
C14_ConfidenceBasis ==
    ScoreDone =>
        LET n == scored.na_count
            vol == quant_data.volatility_proxy
            bucket == IF n >= 4 THEN "low" ELSE IF n >= 2 THEN "medium" ELSE "high"
            label == IF vol.k = "na" THEN "unknown"
                     ELSE IF vol.v > 50 THEN "high" ELSE "medium"
        IN  /\ n = AbsentCount(quant_data)
            /\ n \in 0..6
            /\ 7 - n \in 1..7
            /\ vol.k # "nan" =>
               \E certainty \in {"P/E available", "P/E unavailable"} :
                  scored.confidence_basis =
                      "Data completeness: " \o bucket \o " (" \o ToString(7 - n)
                        \o "/7 key metrics). Volatility: " \o label
                        \o ". Valuation certainty: " \o certainty \o "."
            /\ (bucket = "low") <=> HasLine(scored.justification, "completeness")

\* All six scored metrics absent: low, 1/7, volatility unknown.
C14_Witness ==
    /\ ScoreDone
    /\ scored.na_count = 6
    /\ scored.confidence_basis =
          "Data completeness: low (1/7 key metrics). Volatility: unknown. Valuation certainty: P/E unavailable."

\* Nothing absent: high, 7/7.
C14_Complete ==
    /\ ScoreDone
    /\ scored.na_count = 0
    /\ quant_data.volatility_proxy = Num(60)
    /\ scored.confidence_basis =
          "Data completeness: high (7/7 key metrics). Volatility: high. Valuation certainty: P/E available."

\* Two absent: medium, 5/7.
C14_Medium ==
    /\ ScoreDone
    /\ scored.na_count = 2
    /\ quant_data.volatility_proxy = Num(50)
    /\ quant_data.pe_ratio = NA
    /\ scored.confidence_basis =
          "Data completeness: medium (5/7 key metrics). Volatility: medium. Valuation certainty: P/E unavailable."

-----------------------------------------------------------------------------
(* C15 and C16, under SpecFetch *)

\* The observations of a history window; a missing history has none.
Observations(h) == IF h.none THEN 0 ELSE h.rows

\* C15: in every returned snapshot, return_30d_pct is "N/A" when the month's
\* history has fewer than 2 observations, and range_52w_position and
\* volatility_proxy are "N/A" when the year's history has fewer than 2.
C15_DerivedNeedTwoObservations ==
    (FetchDone /\ fetched.kind = "returned") =>
        /\ Observations(market.hist_30d) < 2 => fetched.data.return_30d_pct = NA
        /\ Observations(market.hist_1y) < 2 =>
              /\ fetched.data.range_52w_position = NA
              /\ fetched.data.volatility_proxy = NA

\* What holds of the three: the return and the volatility need two rows.
C15_ReturnAndVolatility ==
    (FetchDone /\ fetched.kind = "returned") =>
        /\ Observations(market.hist_30d) < 2 => fetched.data.return_30d_pct = NA
        /\ Observations(market.hist_1y) < 2 => fetched.data.volatility_proxy = NA

\* A year's history of one row (High 120, Low 50, Close 100) has given a position.
C15_SingleRow ==
    /\ FetchDone
    /\ fetched.kind = "returned"
    /\ market.hist_1y = Frame(1, AllCols, 100, 100, 120, 50, 0)
    /\ market.info = EmptyInfo
    /\ fetched.data.range_52w_position = Num(7143)
    /\ fetched.data.volatility_proxy = NA

\* C16: in every returned snapshot, range_52w_position is "N/A" or a number
\* in [0, 1].
C16_PositionInUnitInterval ==
    (FetchDone /\ fetched.kind = "returned") =>
        LET pos == fetched.data.range_52w_position
        IN  pos = NA \/ (pos.k = "num" /\ 0 <= pos.v /\ pos.v <= PosOne)

\* With the last close for the price, the position is within [0, 1].
C16_FromLastClose ==
    (FetchDone /\ fetched.kind = "returned"
       /\ PyOr(market.info.currentPrice, market.info.regularMarketPrice) = NA) =>
        LET pos == fetched.data.range_52w_position
        IN  pos = NA \/ (pos.k = "num" /\ 0 <= pos.v /\ pos.v <= PosOne)

\* info.currentPrice 1.30 over a year's range of 0.50 to 1.20: position 1.1429.
C16_AboveHigh ==
    /\ FetchDone
    /\ fetched.kind = "returned"
    /\ market.info.currentPrice = Num(130)
    /\ market.hist_1y.high = 120 /\ market.hist_1y.low = 50
    /\ fetched.data.range_52w_position = Num(11429)

-----------------------------------------------------------------------------
(* C17, under Spec *)

\* C17: in every result record of run_relay, when market data is available
\* the verdict is BUY iff confidence_score >= 70 and SELL iff it is below 40;
\* HOLD with a confidence_score below 40 occurs iff the degenerate path was
\* taken (data_available false); a scored snapshot whose score clamps to 0 is
\* SELL, never HOLD.
C17_VerdictAgreesWithScore ==
    run.kind = "returned" =>
        LET v == run.verdict
            available == run.quant_data.data_available
        IN  /\ available =>
                  /\ v.verdict = "BUY" <=> v.confidence_score >= 70
                  /\ v.verdict = "SELL" <=> v.confidence_score < 40
                  /\ v.verdict \in {"BUY", "HOLD", "SELL"}
            /\ (v.verdict = "HOLD" /\ v.confidence_score < 40) <=> ~available
            /\ (available /\ v.confidence_score = 0) =>
                  (v.verdict = "SELL" /\ run.judge_calls = 1)

\* A scored snapshot whose raw sum is below zero: confidence 0, SELL.
C17_Witness ==
    /\ run.kind = "returned"
    /\ run.quant_data.data_available
    /\ run.judge_calls = 1
    /\ run.verdict.confidence_score = 0
    /\ run.verdict.verdict = "SELL"
    /\ compute_rule_based_verdict(run.quant_data).raw < 0

\* A scored HOLD: the confidence is within 40..69.
C17_ScoredHold ==
    /\ run.kind = "returned"
    /\ run.quant_data.data_available
    /\ run.verdict.verdict = "HOLD"
    /\ run.verdict.confidence_score = 45

\* A scored BUY.
C17_Buy ==
    /\ run.kind = "returned"
    /\ run.quant_data.data_available
    /\ run.verdict.verdict = "BUY"
    /\ run.verdict.confidence_score >= 70

-----------------------------------------------------------------------------
(* C18, under SpecScore *)

\* C18: for every snapshot the confidence_score is at most 90
\* (50 + 15 + 10 + 10 + 5): the sum before clamping never exceeds 90, so the
\* upper clamp to 100 changes nothing and a confidence of 100 is never
\* returned.
C18_AtMostNinety ==
    ScoreDone =>
        /\ scored.raw <= (50 + 15 + 10 + 10 + 5) * Scale
        /\ scored.confidence_score <= 90
        /\ scored.confidence_score # 100
        /\ scored.raw >= 0 => scored.confidence_score = RoundHalfEven(scored.raw, Scale)

\* The four rules that add all at their caps: 90, BUY.
C18_Witness ==
    /\ ScoreDone
    /\ scored.raw = 90 * Scale
    /\ scored.confidence_score = 90
    /\ Len(scored.justification) = 4

\* The least sum, -10, floored to 0.
C18_LeastSum ==
    /\ ScoreDone
    /\ scored.raw = -(10 * Scale)
    /\ scored.confidence_score = 0

\* No sum is below -10.
C18_SumAtLeastMinusTen == ScoreDone => scored.raw >= -(10 * Scale)

-----------------------------------------------------------------------------
(* C19, under SpecRace *)

AllDone == \A t \in Threads : threads[t].pc = "done"

\* The files that the operations of the threads in S, run one after another
\* in some order, leave of the file f.
RECURSIVE SerialResults(_, _)
SerialResults(S, f) ==
    IF S = {} THEN {f}
    ELSE UNION {SerialResults(S \ {t}, Effect(t, threads[t].op, f).profiles) : t \in S}

\* C19: when the mutating operations of concurrent requests have all ended,
\* the stored profiles reflect the effects of all of them: the file is what
\* the operations leave when run one after another in some order.
C19_NoLostUpdate ==
    AllDone => store \in SerialResults(Threads, file0)

\* Two create_profile calls on an empty file have both returned their new
\* profile, and the file holds one profile.
C19_LostCreate ==
    /\ AllDone
    /\ file0 = <<>>
    /\ \A t \in Threads : threads[t].op.kind = "create"
    /\ Len(store) = 1

\* An added ticker overwritten by a concurrent removal's save.
C19_LostAdd ==
    /\ AllDone
    /\ threads[1].op = Op("update", 1, <<>>, <<<<"B">>>>, <<>>)
    /\ threads[2].op = Op("update", 1, <<>>, <<>>, <<<<"a">>>>)
    /\ file0 = <<Profile(1, <<"a">>, <<<<"A">>>>), Profile(2, <<"a">>, <<>>)>>
    /\ store = <<Profile(1, <<"a">>, <<>>), Profile(2, <<"a">>, <<>>)>>

====
